---- MODULE Spec2Model ----
(***************************************************************************)
(* A model of onlinejudge_verify/languages/cplusplus_bundle.py: the        *)
(* Bundler that expands #include "..." directives of a C++ source file     *)
(* into one byte stream.                                                   *)
(*                                                                         *)
(* The recursion of Bundler.update is an explicit call stack; one action   *)
(* is one iteration of its per-line loop, one call boundary or one step of *)
(* an exception passing a finally clause.                                  *)
(*                                                                         *)
(* A source line is the sequence of its lexemes ("#", a keyword, white     *)
(* space, a name, ...), ending with "\n"; the regular expressions of the   *)
(* source are operators over lexeme sequences.  A keyword is one lexeme,   *)
(* so a regular expression that accepts a longer word with the keyword as  *)
(* a prefix ("#elsewhere") is modelled for the keyword itself only.        *)
(***************************************************************************)
EXTENDS Integers, Sequences, FiniteSets, TLC

VARIABLES
    disk,                \* the files on disk: canonical path -> raw lines
    iquotes,             \* Bundler.iquotes
    pragma_once,         \* Bundler.pragma_once
    pragma_once_system,  \* Bundler.pragma_once_system
    result_lines,        \* Bundler.result_lines
    path_stack,          \* Bundler.path_stack
    stack,               \* the activations of Bundler.update, innermost last
    status,              \* "idle" | "running" | "raising" | "done" | "failed"
    error,               \* the BundleErrorAt raised last, or NoError
    calls                \* number of top-level calls of update so far

vars == <<disk, iquotes, pragma_once, pragma_once_system, result_lines,
          path_stack, stack, status, error, calls>>

bundler == <<pragma_once, pragma_once_system, result_lines, path_stack>>

-----------------------------------------------------------------------------
(* Bounds of the model *)

\* lines of a file
MaxLen == 3
\* top-level calls of update on one Bundler
MaxUpdates == 2
\* activations of update on the call stack (never reached: see
\* C5_Terminates)
MaxDepth == 6

-----------------------------------------------------------------------------
(* Paths: <<directory, name>>.  "." is the relative form of the working     *)
(* directory.                                                              *)

Cwd == "/w"
Rel == "."
NoPath == <<"", "">>

\* pathlib.Path.resolve
resolve(path) == IF path[1] = Rel THEN <<Cwd, path[2]>> ELSE path

\* path.relative_to(pathlib.Path.cwd()), keeping path on ValueError
relative_to_cwd(path) == IF path[1] = Cwd THEN <<Rel, path[2]>> ELSE path

\* pathlib.Path.exists
exists(path) == resolve(path) \in DOMAIN disk

-----------------------------------------------------------------------------
(* Lexemes and the regular expressions of the source *)

\* \s
Ws == {" ", "\n"}
\* lexemes that are not \w+
Punct == {"#", "<", ">", "\"", "(", ")", ";", "//"}

RECURSIVE SkipWs(_)
SkipWs(s) == IF s # <<>> /\ Head(s) \in Ws THEN SkipWs(Tail(s)) ELSE s

RECURSIVE Join(_)
Join(s) == IF s = <<>> THEN "" ELSE Head(s) \o Join(Tail(s))

\* what follows \s*#\s* , or <<>> when the line does not start that way
Directive(s) ==
    LET t == SkipWs(s)
    IN  IF t # <<>> /\ Head(t) = "#" THEN SkipWs(Tail(t)) ELSE <<>>

Keyword(s) == IF Directive(s) = <<>> THEN "" ELSE Head(Directive(s))

Args(s) == IF Directive(s) = <<>> THEN <<>> ELSE Tail(Directive(s))

\* the keyword is followed by \s
Spaced(s) == Args(s) # <<>> /\ Head(Args(s)) \in Ws

\* re.match(rb'\s*#\s*(if|ifdef|ifndef)\s.*', s)
MatchIf(s) == Keyword(s) \in {"if", "ifdef", "ifndef"} /\ Spaced(s)

\* re.match(rb'\s*#\s*(else\s*|elif\s.*)', s)
MatchElse(s) == Keyword(s) = "else" \/ (Keyword(s) = "elif" /\ Spaced(s))

\* re.match(rb'\s*#\s*endif\s*', s)
MatchEndif(s) == Keyword(s) = "endif"

\* re.match(rb'\s*#\s*pragma\s+once\s*', s)
MatchPragmaOnce(s) ==
    /\ Keyword(s) = "pragma"
    /\ Spaced(s)
    /\ SkipWs(Args(s)) # <<>>
    /\ Head(SkipWs(Args(s))) = "once"

\* group(1) of re.match(rb'\s*#\s*<kw>\s+(\w+)\s*', s), "" when no match
MacroOf(kw, s) ==
    IF /\ Keyword(s) = kw
       /\ Spaced(s)
       /\ SkipWs(Args(s)) # <<>>
       /\ Head(SkipWs(Args(s))) \notin Punct
    THEN Head(SkipWs(Args(s)))
    ELSE ""

\* the positions of lexeme c in s
Positions(s, c) == {k \in 1..Len(s) : s[k] = c}

Max(S) == CHOOSE x \in S : \A y \in S : y <= x

\* re.match(rb'\s*#\s*include\s*<open>(.*)<close>\s*', s): the opening
\* delimiter follows the keyword, (.*) is greedy up to the last closing one
MatchInclude(s, open, close) ==
    /\ Keyword(s) = "include"
    /\ SkipWs(Args(s)) # <<>>
    /\ Head(SkipWs(Args(s))) = open
    /\ Positions(Tail(SkipWs(Args(s))), close) # {}

\* group(1) of that match
Included(s, open, close) ==
    LET t == Tail(SkipWs(Args(s)))
    IN  Join(SubSeq(t, 1, Max(Positions(t, close)) - 1))

-----------------------------------------------------------------------------
(* The standard library names (a part of the list of the source) *)

bits_stdcxx_h == "bits/stdc++.h"

standard_libraries == {bits_stdcxx_h, "vector", "map", "cstdio", "stdio.h"}

-----------------------------------------------------------------------------
(* Reading a file: the raw lines and the comment-stripped lines *)

\* code.splitlines(keepends=True) of the file, "\n" added to an empty file
lines(path) ==
    LET code == disk[resolve(path)]
    IN  IF code = <<>> THEN << <<"\n">> >> ELSE code

\* a raw line of white space or of a comment only
IsBlankRaw(l) == SkipWs(l) = <<>> \/ Head(SkipWs(l)) = "//"

\* g++ -fpreprocessed -dD -E on one line: a comment becomes an empty line,
\* #pragma once becomes white space, a directive or code is kept
StripLine(l) ==
    IF IsBlankRaw(l) THEN <<"\n">>
    ELSE IF MatchPragmaOnce(l) THEN <<" ", "\n">>
    ELSE l

\* line k (from 1) of get_uncommented_code(path).splitlines(keepends=True)
\* padded with b'' to the length of lines: g++ prints nothing for the blank
\* and comment lines that end a file
uncommented_line(path, k) ==
    LET ls == lines(path)
    IN  IF \A j \in k..Len(ls) : IsBlankRaw(ls[j])
        THEN <<>>
        ELSE StripLine(ls[k])

-----------------------------------------------------------------------------
(* The output buffer.  An element of result_lines is a record              *)
(*   [text, path, line]:                                                   *)
(* text is the line's lexemes; for a synthesized #line directive text is   *)
(* <<"#line">> and line, path are its arguments; for every other line      *)
(* path and line tell which source line appended it (history, not bytes).  *)

LineDirective(line, path) == [text |-> <<"#line">>, line |-> line, path |-> path]

Emitted(text, path, line) == [text |-> text, line |-> line, path |-> path]

\* e.startswith(b'#line ')
StartsWithLine(e) == e.text # <<>> /\ e.text[1] = "#line"

RECURSIVE PopLines(_)
\* while self.result_lines and self.result_lines[-1].startswith(b'#line '): pop
PopLines(r) ==
    IF r # <<>> /\ StartsWithLine(r[Len(r)])
    THEN PopLines(SubSeq(r, 1, Len(r) - 1))
    ELSE r

\* Bundler._line without the loop that pops the trailing directives
_lineNoPop(r, line, path) ==
    Append(r, LineDirective(line, relative_to_cwd(path)))

\* Bundler._line: the buffer after self._line(line, path)
_line(r, line, path) ==
    Append(PopLines(r), LineDirective(line, relative_to_cwd(path)))

-----------------------------------------------------------------------------
(* Bundler._resolve *)

RECURSIVE FirstDir(_, _)
\* the first directory of dirs that holds header, or "" when none does
FirstDir(dirs, header) ==
    IF dirs = <<>> THEN ""
    ELSE IF exists(<<Head(dirs), header>>) THEN Head(dirs)
    ELSE FirstDir(Tail(dirs), header)

\* _resolve looking in self.iquotes before the directory of the includer
_resolveSearchFirst(header, included_from) ==
    IF FirstDir(iquotes, header) # ""
    THEN resolve(<<FirstDir(iquotes, header), header>>)
    ELSE IF exists(<<included_from[1], header>>)
    THEN resolve(<<included_from[1], header>>)
    ELSE NoPath

\* self._resolve(pathlib.Path(header), included_from=included_from);
\* NoPath stands for the BundleErrorAt "no such header"
_resolve(header, included_from) ==
    IF exists(<<included_from[1], header>>)
    THEN resolve(<<included_from[1], header>>)
    ELSE IF FirstDir(iquotes, header) # ""
    THEN resolve(<<FirstDir(iquotes, header), header>>)
    ELSE NoPath

-----------------------------------------------------------------------------
(* Errors *)

NoError == [path |-> NoPath, line |-> 0, message |-> ""]

\* BundleErrorAt(path, line, message)
BundleErrorAt(path, line, message) ==
    [path |-> relative_to_cwd(resolve(path)), line |-> line, message |-> message]

-----------------------------------------------------------------------------
(* An activation of update *)
NoMacro == ""

\* the local variables of update as set before its loop
NewFrame(path) ==
    [path |-> path,
     i |-> 0,                  \* zero-based index of the line to process
     at |-> "line",            \* "line": in the loop; "call": in the update
                               \* of the #include at line i; "back": that
                               \* update has returned
     non_guard_line_found |-> FALSE,
     pragma_once_found |-> FALSE,
     include_guard_macro |-> NoMacro,
     include_guard_define_found |-> FALSE,
     include_guard_endif_found |-> FALSE,
     preprocess_if_nest |-> 0]

\* update without the test of pragma_once at its entry
UpdateEntryNoSkip(path) ==
    IF path \in path_stack THEN "cycle" ELSE "enter"

\* update with its two entry tests in the other order
UpdateEntryCycleFirst(path) ==
    IF path \in path_stack THEN "cycle"
    ELSE IF resolve(path) \in pragma_once THEN "skip"
    ELSE "enter"

\* update without the test of path_stack at its entry
UpdateEntryNoCycle(path) ==
    IF resolve(path) \in pragma_once THEN "skip" ELSE "enter"

\* the checks of update before it enters the file
UpdateEntry(path) ==
    IF resolve(path) \in pragma_once THEN "skip"
    ELSE IF path \in path_stack THEN "cycle"
    ELSE "enter"

is_toplevel(preprocess_if_nest, include_guard_macro) ==
    \/ preprocess_if_nest = 0
    \/ (preprocess_if_nest = 1 /\ include_guard_macro # NoMacro)

-----------------------------------------------------------------------------
(* One iteration of the loop of update *)

\* the iteration ends at continue or at the end of the loop body
Continue(f, po, pos, out) ==
    [ctl |-> "continue", frame |-> f, pragma_once |-> po,
     pragma_once_system |-> pos, result_lines |-> out,
     message |-> "", header |-> ""]

\* the iteration raises BundleErrorAt(path, i + 1, message)
Raise(f, message) ==
    [ctl |-> "raise", frame |-> f, pragma_once |-> pragma_once,
     pragma_once_system |-> pragma_once_system, result_lines |-> result_lines,
     message |-> message, header |-> ""]

\* the iteration executes return
Return(f) ==
    [ctl |-> "return", frame |-> f, pragma_once |-> pragma_once,
     pragma_once_system |-> pragma_once_system, result_lines |-> result_lines,
     message |-> "", header |-> ""]

\* the iteration calls self.update(self._resolve(header, ...))
Call(f, header) ==
    [ctl |-> "call", frame |-> f, pragma_once |-> pragma_once,
     pragma_once_system |-> pragma_once_system, result_lines |-> result_lines,
     message |-> "", header |-> header]

\* the branch #include <...> without the test for bits/stdc++.h
SystemIncludeNoUmbrella(f, line, included, toplevel) ==
    IF included \in pragma_once_system
    THEN Continue(f, pragma_once, pragma_once_system,
                  _line(result_lines, f.i + 2, f.path))
    ELSE IF toplevel /\ included \in standard_libraries
    THEN Continue(f, pragma_once, pragma_once_system \cup {included},
                  Append(result_lines, Emitted(line, f.path, f.i + 1)))
    ELSE Continue(f, pragma_once, pragma_once_system,
                  Append(result_lines, Emitted(line, f.path, f.i + 1)))

\* the branch #include <...> dropping a line without a #line directive
SystemIncludeNoLine(f, line, included, toplevel) ==
    IF included \in pragma_once_system \/ bits_stdcxx_h \in pragma_once_system
    THEN Continue(f, pragma_once, pragma_once_system, result_lines)
    ELSE IF toplevel /\ included \in standard_libraries
    THEN Continue(f, pragma_once, pragma_once_system \cup {included},
                  Append(result_lines, Emitted(line, f.path, f.i + 1)))
    ELSE Continue(f, pragma_once, pragma_once_system,
                  Append(result_lines, Emitted(line, f.path, f.i + 1)))

\* the branch #include <...> of the iteration at line i of f.path
SystemInclude(f, line, included, toplevel) ==
    IF included \in pragma_once_system \/ bits_stdcxx_h \in pragma_once_system
    THEN Continue(f, pragma_once, pragma_once_system,
                  _line(result_lines, f.i + 2, f.path))
    ELSE IF toplevel /\ included \in standard_libraries
    THEN Continue(f, pragma_once, pragma_once_system \cup {included},
                  Append(result_lines, Emitted(line, f.path, f.i + 1)))
    ELSE Continue(f, pragma_once, pragma_once_system,
                  Append(result_lines, Emitted(line, f.path, f.i + 1)))

\* the branch #pragma once without the test for an include guard candidate
PragmaOnceNoGuardTest(f) ==
    IF f.non_guard_line_found
    THEN Raise(f, "#pragma once found in a non-first line")
    ELSE IF resolve(f.path) \in pragma_once
    THEN Return(f)
    ELSE Continue([f EXCEPT !.pragma_once_found = TRUE],
                  pragma_once \cup {resolve(f.path)}, pragma_once_system,
                  _line(result_lines, f.i + 2, f.path))

\* the branch #pragma once with a blank line appended before the directive
PragmaOncePlaceholder(f) ==
    IF f.non_guard_line_found
    THEN Raise(f, "#pragma once found in a non-first line")
    ELSE IF f.include_guard_macro # NoMacro
    THEN Raise(f, "#pragma once found in an include guard with #ifndef")
    ELSE IF resolve(f.path) \in pragma_once
    THEN Return(f)
    ELSE Continue([f EXCEPT !.pragma_once_found = TRUE],
                  pragma_once \cup {resolve(f.path)}, pragma_once_system,
                  _line(Append(result_lines,
                               Emitted(<<"\n">>, f.path, f.i + 1)),
                        f.i + 2, f.path))

\* the branch #pragma once of the iteration
PragmaOnce(f) ==
    IF f.non_guard_line_found
    THEN Raise(f, "#pragma once found in a non-first line")
    ELSE IF f.include_guard_macro # NoMacro
    THEN Raise(f, "#pragma once found in an include guard with #ifndef")
    ELSE IF resolve(f.path) \in pragma_once
    THEN Return(f)
    ELSE Continue([f EXCEPT !.pragma_once_found = TRUE],
                  pragma_once \cup {resolve(f.path)}, pragma_once_system,
                  _line(result_lines, f.i + 2, f.path))

\* the part of the iteration from "if uncommented_line:" on, without the
\* test for a closed include guard
ContentNoGuardCheck(f, line, u, toplevel) ==
    LET g == IF u # <<>>
             THEN [f EXCEPT !.non_guard_line_found = TRUE,
                            !.include_guard_macro =
                                IF @ # NoMacro /\ ~f.include_guard_define_found
                                THEN NoMacro ELSE @]
             ELSE f
    IN  IF MatchInclude(u, "<", ">")
        THEN SystemInclude(g, line, Included(u, "<", ">"), toplevel)
        ELSE IF MatchInclude(u, "\"", "\"")
        THEN IF ~toplevel
             THEN Raise(g, "unable to process #include in #if / #ifdef / #ifndef other than include guards")
             ELSE Call(g, Included(u, "\"", "\""))
        ELSE Continue(g, pragma_once, pragma_once_system,
                      Append(result_lines, Emitted(line, f.path, f.i + 1)))

\* the part of the iteration from "if uncommented_line:" on
Content(f, line, u, toplevel) ==
    LET g == IF u # <<>>
             THEN [f EXCEPT !.non_guard_line_found = TRUE,
                            !.include_guard_macro =
                                IF @ # NoMacro /\ ~f.include_guard_define_found
                                THEN NoMacro ELSE @]
             ELSE f
    IN  IF u # <<>> /\ f.include_guard_endif_found
        THEN Raise(g, "found codes out of include guard")
        ELSE IF MatchInclude(u, "<", ">")
        THEN SystemInclude(g, line, Included(u, "<", ">"), toplevel)
        ELSE IF MatchInclude(u, "\"", "\"")
        THEN IF ~toplevel
             THEN Raise(g, "unable to process #include in #if / #ifdef / #ifndef other than include guards")
             ELSE Call(g, Included(u, "\"", "\""))
        ELSE Continue(g, pragma_once, pragma_once_system,
                      Append(result_lines, Emitted(line, f.path, f.i + 1)))

\* a blank line in place of a directive of the include guard
Placeholder(f) == Append(result_lines, Emitted(<<"\n">>, f.path, f.i + 1))

\* the body of the loop for the activation f0, with line and
\* uncommented_line (u) of the iteration
Iteration(f0, line, u) ==
    LET n1 == IF MatchIf(u) THEN f0.preprocess_if_nest + 1
              ELSE f0.preprocess_if_nest
        n2 == IF MatchEndif(u) THEN n1 - 1 ELSE n1
        f == [f0 EXCEPT !.preprocess_if_nest = n2]
        toplevel == is_toplevel(n2, f.include_guard_macro)
    IN  IF MatchElse(u) /\ n1 = 0
        THEN Raise(f, "unmatched #else / #elif")
        ELSE IF MatchEndif(u) /\ n2 < 0
        THEN Raise(f, "unmatched #endif")
        ELSE IF MatchPragmaOnce(line)
        THEN PragmaOnce(f)
        ELSE IF /\ ~f.pragma_once_found
                /\ ~f.non_guard_line_found
                /\ f.include_guard_macro = NoMacro
                /\ MacroOf("ifndef", u) # NoMacro
        THEN Continue([f EXCEPT !.include_guard_macro = MacroOf("ifndef", u)],
                      pragma_once, pragma_once_system, Placeholder(f))
        ELSE IF /\ f.include_guard_macro # NoMacro
                /\ ~f.include_guard_define_found
                /\ MacroOf("define", u) = f.include_guard_macro
        THEN Continue([f EXCEPT !.include_guard_define_found = TRUE],
                      pragma_once \cup {resolve(f.path)}, pragma_once_system,
                      Placeholder(f))
        ELSE IF /\ f.include_guard_define_found
                /\ n2 = 0
                /\ ~f.include_guard_endif_found
                /\ MatchEndif(u)
        THEN Continue([f EXCEPT !.include_guard_endif_found = TRUE],
                      pragma_once, pragma_once_system, Placeholder(f))
        ELSE Content(f, line, u, toplevel)

\* the iteration of the loop for line i of the activation f0:
\* for i, (line, uncommented_line) in enumerate(zip(lines, uncommented_lines))
LineEffect(f0) ==
    CHOOSE e \in {Iteration(f0, line, u) :
                     line \in {lines(f0.path)[f0.i + 1]},
                     u \in {uncommented_line(f0.path, f0.i + 1)}} : TRUE

-----------------------------------------------------------------------------
(* The state machine *)

Top == stack[Len(stack)]

InLoop == status = "running" /\ stack # <<>> /\ Top.at = "line"

AtLine == InLoop /\ Top.i < Len(lines(Top.path))

SetTop(f) == [stack EXCEPT ![Len(stack)] = f]

\* the stack after the innermost update has ended: its caller is back from
\* the call at line 307
Popped ==
    LET s == SubSeq(stack, 1, Len(stack) - 1)
    IN  IF s = <<>> THEN s ELSE [s EXCEPT ![Len(s)].at = "back"]

\* update returns (return statement or end of the body): the finally clause
\* removes the path
Leave ==
    /\ path_stack' = path_stack \ {Top.path}
    /\ stack' = Popped
    /\ status' = IF Len(stack) = 1 THEN "done" ELSE "running"

\* update entering a file without self.path_stack.add(path)
EnterNoAdd(path, callers) ==
    /\ path_stack' = path_stack
    /\ stack' = Append(callers, NewFrame(path))
    /\ result_lines' = _line(result_lines, 1, path)
    /\ status' = "running"

\* update entering a file without self._line(1, path)
EnterNoLine(path, callers) ==
    /\ path_stack' = path_stack \cup {path}
    /\ stack' = Append(callers, NewFrame(path))
    /\ result_lines' = result_lines
    /\ status' = "running"

\* the call update(path), from the caller's side: the checks at entry and
\* the statements before the loop
Enter(path, callers) ==
    /\ path_stack' = path_stack \cup {path}
    /\ stack' = Append(callers, NewFrame(path))
    /\ result_lines' = _line(result_lines, 1, path)
    /\ status' = "running"

\* a loop iteration that goes on to the next line
ProcessLine ==
    /\ AtLine
    /\ \E e \in {LineEffect(Top)} :
          /\ e.ctl = "continue"
          /\ stack' = SetTop([e.frame EXCEPT !.i = @ + 1])
          /\ pragma_once' = e.pragma_once
          /\ pragma_once_system' = e.pragma_once_system
          /\ result_lines' = e.result_lines
    /\ UNCHANGED <<disk, iquotes, path_stack, status, error, calls>>

\* a loop iteration that raises BundleErrorAt
RaiseAtLine ==
    /\ AtLine
    /\ \E e \in {LineEffect(Top)} :
          /\ e.ctl = "raise"
          /\ error' = BundleErrorAt(Top.path, Top.i + 1, e.message)
    /\ status' = "raising"
    /\ UNCHANGED <<disk, iquotes, bundler, stack, calls>>

\* the return at a #pragma once of a file that is in pragma_once
ReturnAtPragmaOnce ==
    /\ AtLine
    /\ LineEffect(Top).ctl = "return"
    /\ Leave
    /\ UNCHANGED <<disk, iquotes, pragma_once, pragma_once_system,
                   result_lines, error, calls>>

\* a loop iteration at a toplevel #include "...": _resolve, then the call
\* of update up to its loop
IncludeCall ==
    /\ AtLine
    /\ \E e \in {LineEffect(Top)} :
          /\ e.ctl = "call"
          /\ \E path \in {_resolve(e.header, Top.path)} :
                IF path = NoPath
                THEN /\ error' = BundleErrorAt(<<Rel, e.header>>, -1, "no such header")
                     /\ status' = "raising"
                     /\ UNCHANGED <<bundler, stack>>
                ELSE IF UpdateEntry(path) = "skip"
                THEN /\ stack' = SetTop([e.frame EXCEPT !.at = "back"])
                     /\ UNCHANGED <<bundler, status, error>>
                ELSE IF UpdateEntry(path) = "cycle"
                THEN /\ error' = BundleErrorAt(path, -1, "cycle found in inclusion relations")
                     /\ status' = "raising"
                     /\ UNCHANGED <<bundler, stack>>
                ELSE /\ Len(stack) < MaxDepth
                     /\ Enter(path, SetTop([e.frame EXCEPT !.at = "call"]))
                     /\ UNCHANGED <<pragma_once, pragma_once_system, error>>
    /\ UNCHANGED <<disk, iquotes, calls>>

\* after the update of an #include "..." has returned, with the number of
\* the #include line itself in the directive
AfterIncludeSameLine ==
    /\ status = "running"
    /\ stack # <<>>
    /\ Top.at = "back"
    /\ result_lines' = _line(result_lines, Top.i + 1, Top.path)
    /\ stack' = SetTop([Top EXCEPT !.at = "line", !.i = @ + 1])
    /\ UNCHANGED <<disk, iquotes, pragma_once, pragma_once_system, path_stack,
                   status, error, calls>>

\* after the update of an #include "..." has returned: self._line(i + 2, path)
AfterInclude ==
    /\ status = "running"
    /\ stack # <<>>
    /\ Top.at = "back"
    /\ result_lines' = _line(result_lines, Top.i + 2, Top.path)
    /\ stack' = SetTop([Top EXCEPT !.at = "line", !.i = @ + 1])
    /\ UNCHANGED <<disk, iquotes, pragma_once, pragma_once_system, path_stack,
                   status, error, calls>>

\* the checks after the loop, then the end of update
EndOfFile ==
    /\ InLoop
    /\ Top.i = Len(lines(Top.path))
    /\ IF Top.preprocess_if_nest # 0
       THEN /\ error' = BundleErrorAt(Top.path, Top.i, "unmatched #if / #ifdef / #ifndef")
            /\ status' = "raising"
            /\ UNCHANGED <<path_stack, stack>>
       ELSE IF Top.include_guard_macro # NoMacro /\ ~Top.include_guard_endif_found
       THEN /\ error' = BundleErrorAt(Top.path, Top.i, "unmatched #ifndef")
            /\ status' = "raising"
            /\ UNCHANGED <<path_stack, stack>>
       ELSE /\ Leave
            /\ UNCHANGED error
    /\ UNCHANGED <<disk, iquotes, pragma_once, pragma_once_system,
                   result_lines, calls>>

\* an exception leaves an activation of update that has no finally clause
UnwindNoFinally ==
    /\ status = "raising"
    /\ stack # <<>>
    /\ path_stack' = path_stack
    /\ stack' = SubSeq(stack, 1, Len(stack) - 1)
    /\ status' = IF Len(stack) = 1 THEN "failed" ELSE "raising"
    /\ UNCHANGED <<disk, iquotes, pragma_once, pragma_once_system,
                   result_lines, error, calls>>

\* an exception leaves an activation of update through its finally clause
Unwind ==
    /\ status = "raising"
    /\ stack # <<>>
    /\ path_stack' = path_stack \ {Top.path}
    /\ stack' = SubSeq(stack, 1, Len(stack) - 1)
    /\ status' = IF Len(stack) = 1 THEN "failed" ELSE "raising"
    /\ UNCHANGED <<disk, iquotes, pragma_once, pragma_once_system,
                   result_lines, error, calls>>

\* the paths a caller hands to update: the main file, by its path relative
\* to the working directory or by its canonical path
RootPaths == {<<Rel, "m">>, <<Cwd, "m">>}

\* the caller of the Bundler calls update(path)
Update ==
    /\ status \in {"idle", "done", "failed"}
    /\ calls < MaxUpdates
    /\ calls' = calls + 1
    /\ \E path \in RootPaths :
          IF UpdateEntry(path) = "skip"
          THEN /\ status' = "done"
               /\ UNCHANGED <<bundler, stack>>
          ELSE IF UpdateEntry(path) = "cycle"
          THEN /\ status' = "failed"
               /\ UNCHANGED <<bundler, stack>>
          ELSE /\ Enter(path, <<>>)
               /\ UNCHANGED <<pragma_once, pragma_once_system>>
    /\ error' = NoError
    /\ UNCHANGED <<disk, iquotes>>

\* the bytes of a line of the output, as lexemes
Bytes(e) ==
    IF StartsWithLine(e)
    THEN <<"#line", " ", e.line, " ", "\"", e.path, "\"", "\n">>
    ELSE e.text

RECURSIVE Concat(_)
\* b''.join(r)
Concat(r) == IF r = <<>> THEN <<>> ELSE Bytes(Head(r)) \o Concat(Tail(r))

\* Bundler.get
get == Concat(result_lines)

Next ==
    \/ Update
    \/ ProcessLine
    \/ RaiseAtLine
    \/ ReturnAtPragmaOnce
    \/ IncludeCall
    \/ AfterInclude
    \/ EndOfFile
    \/ Unwind

-----------------------------------------------------------------------------
(* The files of the model *)

BlankLine == <<"\n">>
CodeLine == <<"int", " ", "x", ";", "\n">>
CommentLine == <<"//", " ", "c", "\n">>
PragmaOnceLine == <<"#", "pragma", " ", "once", "\n">>
IfndefLine == <<"#", "ifndef", " ", "A", "\n">>
DefineLine == <<"#", "define", " ", "A", "\n">>
IfLine == <<"#", "if", " ", "X", "\n">>
IfParenLine == <<"#", "if", "(", "X", ")", "\n">>
ElseLine == <<"#", "else", "\n">>
EndifLine == <<"#", "endif", "\n">>
SystemLine(name) == <<"#", "include", " ", "<", name, ">", "\n">>
UserLine(name) == <<"#", "include", " ", "\"", name, "\"", "\n">>

BoundedSeq(S, n) == UNION {[1..k -> S] : k \in 0..n}

\* every line of the model
Alphabet ==
    {CodeLine, CommentLine, PragmaOnceLine, IfndefLine, DefineLine, IfLine,
     IfParenLine, ElseLine, EndifLine, SystemLine("vector"),
     SystemLine(bits_stdcxx_h), SystemLine("boost/x.hpp"), UserLine("a"),
     UserLine("m")}

\* the lines of an include guard and what it may hold
GuardLines ==
    {CodeLine, CommentLine, PragmaOnceLine, IfndefLine, DefineLine, EndifLine}

\* the lines of conditional blocks and system includes
ConditionalLines ==
    {IfLine, ElseLine, EndifLine, SystemLine("vector"),
     SystemLine(bits_stdcxx_h), SystemLine("boost/x.hpp")}

Main == <<Cwd, "m">>
Header == <<Cwd, "a">>

\* the main file alone: every short file, and the longer files of one theme
SingleFile ==
    [{Main} -> BoundedSeq(Alphabet, MaxLen)
               \cup BoundedSeq(GuardLines, MaxLen + 1)
               \cup BoundedSeq(ConditionalLines, MaxLen + 1)]

\* a main file and a header with #pragma once, plain or in a cycle
PragmaPair ==
    {[p \in {Main, Header} |-> IF p = Main THEN m ELSE a] :
        m \in BoundedSeq({CodeLine, SystemLine("vector"), UserLine("a")}, MaxLen),
        a \in BoundedSeq({CodeLine, PragmaOnceLine, SystemLine("vector"),
                          UserLine("a"), UserLine("m")}, MaxLen - 1)}

\* a main file and a header with an include guard
GuardPair ==
    {[p \in {Main, Header} |-> IF p = Main THEN m ELSE a] :
        m \in BoundedSeq({CodeLine, UserLine("a")}, MaxLen - 1),
        a \in BoundedSeq({CodeLine, IfndefLine, DefineLine, EndifLine,
                          UserLine("a")}, MaxLen + 1)}

\* a main file with conditional blocks around the include of a header
ConditionalPair ==
    {[p \in {Main, Header} |-> IF p = Main THEN m ELSE a] :
        m \in BoundedSeq({IfLine, IfndefLine, DefineLine, EndifLine,
                          UserLine("a")}, MaxLen),
        a \in BoundedSeq({CodeLine}, 1)}

\* a main file with a closed include guard and what may follow it
GuardTail ==
    [{Main} -> {<<IfndefLine, DefineLine, EndifLine>> \o t :
                   t \in BoundedSeq({CodeLine, CommentLine, BlankLine,
                                     PragmaOnceLine,
                                     IfLine, ElseLine, EndifLine,
                                     SystemLine("vector")}, MaxLen - 1)}]

Header2 == <<Cwd, "b">>

\* a main file that includes a header that includes a second header
Chain ==
    {[p \in {Main, Header, Header2} |->
         IF p = Main THEN <<UserLine("a")>> \o m
         ELSE IF p = Header THEN <<UserLine("b")>> \o a
         ELSE b] :
        m \in BoundedSeq({CodeLine}, 1),
        a \in BoundedSeq({CodeLine}, 1),
        b \in BoundedSeq({CodeLine, PragmaOnceLine}, 1)}

FileSystems ==
    SingleFile \cup PragmaPair \cup GuardPair \cup ConditionalPair
        \cup GuardTail \cup Chain

Init ==
    /\ disk \in FileSystems
    /\ iquotes = <<>>
    /\ pragma_once = {}
    /\ pragma_once_system = {}
    /\ result_lines = <<>>
    /\ path_stack = {}
    /\ stack = <<>>
    /\ status = "idle"
    /\ error = NoError
    /\ calls = 0

Spec == Init /\ [][Next]_vars

\* every step but the top-level call: Python runs update to its end
Run ==
    \/ ProcessLine
    \/ RaiseAtLine
    \/ ReturnAtPragmaOnce
    \/ IncludeCall
    \/ AfterInclude
    \/ EndOfFile
    \/ Unwind

\* two short files that may include themselves and each other, with
\* #pragma once or without
CyclicFileSystems ==
    {[p \in {Main, Header} |-> IF p = Main THEN m ELSE a] :
        m \in BoundedSeq({CodeLine, UserLine("a")}, MaxLen - 1),
        a \in BoundedSeq({CodeLine, PragmaOnceLine, UserLine("a"),
                          UserLine("m")}, MaxLen - 1)}

FairInit == Init /\ disk \in CyclicFileSystems

FairSpec == FairInit /\ [][Next]_vars /\ WF_vars(Run)

\* the working directory and two directories for -I
Dirs == {Cwd, "/i", "/j"}

\* self.iquotes: the directories in the order supplied
IquoteLists == {<<>>, <<"/i">>, <<"/j">>, <<"/i", "/j">>, <<"/j", "/i">>}

\* the main file includes "a"; "a" and "b" are in any of the directories,
\* where "a" includes "b" or holds code
ResolveFileSystems ==
    {[p \in {Main} \cup {<<d, "a">> : d \in DA} \cup {<<d, "b">> : d \in DB} |->
         IF p = Main THEN <<UserLine("a"), CodeLine>>
         ELSE IF p[2] = "a" THEN ca[p[1]]
         ELSE cb] :
        DA \in SUBSET Dirs, DB \in SUBSET Dirs,
        ca \in [Dirs -> {<<UserLine("b")>>, <<CodeLine>>}],
        cb \in {<<CodeLine>>, <<PragmaOnceLine, PragmaOnceLine>>,
                <<CodeLine, PragmaOnceLine>>}}

\* Bundler(iquotes=...) on files in several directories
ResolveInit ==
    /\ disk \in ResolveFileSystems
    /\ iquotes \in IquoteLists
    /\ pragma_once = {}
    /\ pragma_once_system = {}
    /\ result_lines = <<>>
    /\ path_stack = {}
    /\ stack = <<>>
    /\ status = "idle"
    /\ error = NoError
    /\ calls = 0

ResolveSpec == ResolveInit /\ [][Next]_vars

-----------------------------------------------------------------------------
(* Properties *)

Range(s) == {s[k] : k \in DOMAIN s}

\* the path that the #include "..." at line i of activation f hands to update
Target(f) ==
    _resolve(Included(uncommented_line(f.path, f.i + 1), "\"", "\""), f.path)

\* the next step is the call of update from an #include "..." whose header
\* exists
Calling ==
    /\ AtLine
    /\ LineEffect(Top).ctl = "call"
    /\ Target(Top) # NoPath

\* a line of the output that is the text of a source line
Verbatim(e) == ~StartsWithLine(e) /\ e.text # <<"\n">>

CycleMessage == "cycle found in inclusion relations"

\* C1: the lines of a file that is registered in pragma_once are in the
\* output at most once: no two lines of the output, directives aside, come
\* from the same line of the same registered file.
C1_GuardedLinesOnce ==
    \A j, k \in DOMAIN result_lines :
        (/\ j < k
         /\ ~StartsWithLine(result_lines[j])
         /\ ~StartsWithLine(result_lines[k])
         /\ resolve(result_lines[j].path) \in pragma_once
         /\ resolve(result_lines[j].path) = resolve(result_lines[k].path))
        => result_lines[j].line # result_lines[k].line

\* a registered header, whose code is in the output, has been included by
\* two lines of the file in progress
C1_Witness ==
    /\ InLoop
    /\ Top.i >= 2
    /\ lines(Top.path)[Top.i] = UserLine("a")
    /\ lines(Top.path)[Top.i - 1] = UserLine("a")
    /\ Header \in pragma_once
    /\ \E j \in DOMAIN result_lines :
          /\ Verbatim(result_lines[j])
          /\ resolve(result_lines[j].path) = Header

\* C2: a call update(P) with the canonical path of P in pragma_once returns
\* at once: no error, and pragma_once, pragma_once_system, result_lines and
\* path_stack keep their values, also when P is in path_stack.
C2_RegisteredIsNoOp ==
    [][/\ (Calling /\ resolve(Target(Top)) \in pragma_once)
            => /\ UNCHANGED bundler
               /\ status' = "running"
               /\ error' = error
               /\ stack' = SetTop([LineEffect(Top).frame EXCEPT !.at = "back"])
       /\ (/\ calls' # calls
           /\ {resolve(path) : path \in RootPaths} \subseteq pragma_once)
            => /\ UNCHANGED bundler
               /\ status' = "done"
               /\ error' = NoError
               /\ stack' = stack]_vars

\* update has just returned from a call on a registered file that is on
\* path_stack
C2_Witness ==
    /\ status = "running"
    /\ stack # <<>>
    /\ Top.at = "back"
    /\ Target(Top) \in pragma_once
    /\ Target(Top) \in path_stack

\* the positions of the output that hold #include <H>
SystemLines(r, H) ==
    {j \in DOMAIN r : /\ ~StartsWithLine(r[j])
                      /\ MatchInclude(r[j].text, "<", ">")
                      /\ Included(r[j].text, "<", ">") = H}

\* the positions of the output that hold an #include <...>
AllSystemLines(r) ==
    {j \in DOMAIN r : ~StartsWithLine(r[j]) /\ MatchInclude(r[j].text, "<", ">")}

\* the first bundle on a Bundler has succeeded
Bundled == status = "done" /\ calls = 1

C4_EveryCycleFails ==
    [][(Calling /\ Target(Top) \in path_stack)
          => (status' = "raising" /\ error'.message = CycleMessage)]_vars

\* C4: a call of update on a path that is on path_stack and whose canonical
\* path is not in pragma_once raises the cycle error, and no error that is
\* raised is caught: the top-level update fails with it.
C4_UnregisteredCycleFails ==
    [][/\ (/\ Calling
           /\ Target(Top) \in path_stack
           /\ resolve(Target(Top)) \notin pragma_once)
            => /\ status' = "raising"
               /\ error' = BundleErrorAt(Target(Top), -1, CycleMessage)
       /\ status = "raising"
            => /\ status' \in {"raising", "failed"}
               /\ error' = error]_vars

\* the cycle error is on its way up from a nested update
C4_Witness ==
    /\ status = "raising"
    /\ error.message = CycleMessage
    /\ Len(stack) >= 2

\* C5: update ends on every file system, with or without cycles of
\* #include "...": a running or failing update leads to "done" or "failed",
\* and the call stack never holds more activations than files plus one (the
\* main file may be entered by two forms of its path).
C5_Terminates ==
    /\ [](Len(stack) <= Cardinality(DOMAIN disk) + 1)
    /\ (status \in {"running", "raising"}) ~> (status \in {"done", "failed"})

\* an update on files that include each other has ended
C5_Witness ==
    /\ status \in {"done", "failed"}
    /\ stack = <<>>
    /\ Header \in DOMAIN disk
    /\ UserLine("a") \in Range(disk[Main])
    /\ UserLine("m") \in Range(disk[Header])
    /\ \E j \in DOMAIN result_lines : resolve(result_lines[j].path) = Header

PolicyMessage ==
    "unable to process #include in #if / #ifdef / #ifndef other than include guards"

\* C6 as stated: an #include "..." at a line where preprocess_if_nest is not
\* 0, and is not 1 inside an include guard whose #define has been seen,
\* raises the policy error (and is not expanded).
C6_IncludeOnlyAtTopLevel ==
    [][(/\ AtLine
        /\ ~MatchPragmaOnce(lines(Top.path)[Top.i + 1])
        /\ MatchInclude(uncommented_line(Top.path, Top.i + 1), "\"", "\"")
        /\ ~(\/ Top.preprocess_if_nest = 0
             \/ (Top.preprocess_if_nest = 1 /\ Top.include_guard_define_found)))
          => (status' = "raising" /\ error'.message = PolicyMessage)]_vars

\* the position of the last #line directive of r before position j, 0 when
\* there is none
LastDirective(r, j) ==
    LET D == {k \in 1..(j - 1) : StartsWithLine(r[k])}
    IN  IF D = {} THEN 0 ELSE Max(D)

\* the file and the line number that a compiler reading the directives of r
\* gives to position j: the line after #line N "F" is line N of F
Replay(r, j) ==
    LET k == LastDirective(r, j)
    IN  [path |-> r[k].path, line |-> r[k].line + (j - k - 1)]

\* C7: every line of the output that comes from line n of a file G (verbatim
\* or as the blank line in place of a directive of the include guard) gets
\* the pair (G, n) when the #line directives before it are replayed.
C7_LineNumbers ==
    \A j \in DOMAIN result_lines :
        ~StartsWithLine(result_lines[j])
        => /\ LastDirective(result_lines, j) > 0
           /\ Replay(result_lines, j) =
                 [path |-> relative_to_cwd(result_lines[j].path),
                  line |-> result_lines[j].line]

\* a bundle has succeeded whose output has a line of code from line 2 or
\* later of one file after a line of another file
C7_Witness ==
    /\ status = "done"
    /\ \E j, k \in DOMAIN result_lines :
          /\ k < j
          /\ Verbatim(result_lines[j])
          /\ Verbatim(result_lines[k])
          /\ result_lines[j].line >= 2
          /\ resolve(result_lines[k].path) # resolve(result_lines[j].path)

\* line n of path is an #include "..." that update expands
IsUserInclude(path, n) ==
    /\ ~MatchPragmaOnce(lines(path)[n])
    /\ MatchInclude(uncommented_line(path, n), "\"", "\"")

\* the file that the #include "..." at line n of path names
IncludedBy(path, n) ==
    _resolve(Included(uncommented_line(path, n), "\"", "\""), path)

C9_PathStackDiscipline ==
    /\ path_stack = {stack[k].path : k \in DOMAIN stack}
    /\ Cardinality(path_stack) = Len(stack)
    /\ status \in {"idle", "done", "failed"}
          => (stack = <<>> /\ path_stack = {})

\* an error raised in an included file has ended the top-level update
C9_Witness ==
    /\ status = "failed"
    /\ path_stack = {}
    /\ error.path = relative_to_cwd(Header)
    /\ error.line >= 1

RECURSIVE Matched(_, _, _)
\* the conditional directives of the lines k.. of path match, d of them
\* being open before line k
Matched(path, k, d) ==
    IF k > Len(lines(path)) THEN d = 0
    ELSE LET u == uncommented_line(path, k)
             d1 == IF MatchIf(u) THEN d + 1 ELSE d
         IN  IF (MatchElse(u) \/ MatchEndif(u)) /\ d1 = 0 THEN FALSE
             ELSE Matched(path, k + 1, IF MatchEndif(u) THEN d1 - 1 ELSE d1)

\* C10 as stated: an activation of update ends without an error only if the
\* conditional directives of its file match (every #else, #elif and #endif
\* has an open conditional, none is open at the end of the file).
C10_ReturnsOnlyIfBalanced ==
    [][(/\ status = "running"
        /\ status' \in {"running", "done"}
        /\ Len(stack') < Len(stack))
          => Matched(Top.path, 1, 0)]_vars

\* C11 as stated: after an update that failed the output buffer holds no
\* line of the failed bundle: get() returns nothing of it.
C11_NoPartialOutput ==
    (status = "failed" /\ calls = 1) => get = <<>>

\* the file holds a line #pragma once
HasPragmaOnce(path) ==
    \E k \in DOMAIN lines(path) : MatchPragmaOnce(lines(path)[k])

\* the file holds #ifndef M and, on the next line, #define M
HasGuard(path) ==
    \E k \in DOMAIN lines(path) :
        /\ k + 1 \in DOMAIN lines(path)
        /\ MacroOf("ifndef", uncommented_line(path, k)) # NoMacro
        /\ MacroOf("define", uncommented_line(path, k + 1))
              = MacroOf("ifndef", uncommented_line(path, k))

GuardMessage == "#pragma once found in an include guard with #ifndef"

NonFirstMessage == "#pragma once found in a non-first line"

\* C12 as stated: update does not reach the end of a file that holds both a
\* #pragma once and an #ifndef M / #define M pair, in either order, without
\* raising an error.
C12_BothFormsRejected ==
    [][(/\ InLoop
        /\ Top.i = Len(lines(Top.path))
        /\ HasPragmaOnce(Top.path)
        /\ HasGuard(Top.path))
          => status' = "raising"]_vars

\* C12: a #pragma once at a line where an #ifndef guard candidate is active
\* raises an error; an #ifndef M that follows an accepted #pragma once is
\* no guard candidate: it goes to the output as it is, and no frame ever holds
\* both forms.
C12_GuardThenPragmaRejected ==
    /\ [][(/\ AtLine
           /\ MatchPragmaOnce(lines(Top.path)[Top.i + 1])
           /\ ~MatchEndif(uncommented_line(Top.path, Top.i + 1))
           /\ ~MatchElse(uncommented_line(Top.path, Top.i + 1))
           /\ Top.include_guard_macro # NoMacro)
             => /\ status' = "raising"
                /\ error' = BundleErrorAt(Top.path, Top.i + 1,
                               IF Top.non_guard_line_found
                               THEN NonFirstMessage ELSE GuardMessage)]_vars
    /\ [][(/\ AtLine
           /\ Top.pragma_once_found
           /\ MacroOf("ifndef", uncommented_line(Top.path, Top.i + 1)) # NoMacro)
             => /\ status' = "running"
                /\ result_lines' =
                      Append(result_lines,
                             Emitted(lines(Top.path)[Top.i + 1], Top.path,
                                     Top.i + 1))
                /\ stack'[Len(stack)].include_guard_macro = NoMacro]_vars
    /\ [](\A j \in DOMAIN stack :
             stack[j].pragma_once_found
                => /\ stack[j].include_guard_macro = NoMacro
                   /\ ~stack[j].include_guard_define_found)

\* a #pragma once after an #ifndef guard candidate has raised its error
C12_Witness ==
    /\ status = "raising"
    /\ error.message = GuardMessage
    /\ Top.include_guard_macro # NoMacro
    /\ ~Top.pragma_once_found

\* the output with the path of every line relative to the working directory
Shown(r) == [j \in DOMAIN r |-> [r[j] EXCEPT !.path = relative_to_cwd(@)]]

\* C13 as stated: after a successful bundle the output holds the directive
\* #line 1 "F" for every file F of which it holds a line.
C13_LineOneOfEveryFile ==
    Bundled =>
        \A j \in DOMAIN result_lines :
            ~StartsWithLine(result_lines[j])
               => \E k \in DOMAIN result_lines :
                     result_lines[k] =
                        LineDirective(1, relative_to_cwd(result_lines[j].path))

\* C13: when update has entered a file and is at its first line, #line 1 of
\* the file is the last line of the output; a line of the output that comes
\* from the first line of a file has #line 1 of that file before it; and the
\* chain main -> a -> b is bundled to #line 1 "b", b's line, #line 2 "a", a's
\* second line, #line 2 "m", m's second line: a directive that is followed
\* by another one is not in the output.
C13_LineOneAtEntry ==
    /\ (InLoop /\ Top.i = 0)
          => /\ result_lines # <<>>
             /\ result_lines[Len(result_lines)] =
                   LineDirective(1, relative_to_cwd(Top.path))
    /\ \A j \in DOMAIN result_lines :
          (~StartsWithLine(result_lines[j]) /\ result_lines[j].line = 1)
             => /\ j > 1
                /\ result_lines[j - 1] =
                      LineDirective(1, relative_to_cwd(result_lines[j].path))
    /\ (/\ Bundled
        /\ Header2 \in DOMAIN disk
        /\ disk[Main] = <<UserLine("a"), CodeLine>>
        /\ disk[Header] = <<UserLine("b"), CodeLine>>
        /\ disk[Header2] = <<CodeLine>>)
          => Shown(result_lines) =
                <<LineDirective(1, <<Rel, "b">>),
                  Emitted(CodeLine, <<Rel, "b">>, 1),
                  LineDirective(2, <<Rel, "a">>),
                  Emitted(CodeLine, <<Rel, "a">>, 2),
                  LineDirective(2, <<Rel, "m">>),
                  Emitted(CodeLine, <<Rel, "m">>, 2)>>

\* the chain main -> a -> b has been bundled
C13_Witness ==
    /\ Bundled
    /\ Header2 \in DOMAIN disk
    /\ disk[Main] = <<UserLine("a"), CodeLine>>
    /\ disk[Header] = <<UserLine("b"), CodeLine>>
    /\ disk[Header2] = <<CodeLine>>
    /\ Len(result_lines) = 6

OutOfGuardMessage == "found codes out of include guard"

\* the errors that update raises at a line after a closed include guard
AfterGuardMessages ==
    {OutOfGuardMessage, GuardMessage, NonFirstMessage, "unmatched #endif",
     "unmatched #else / #elif"}

\* C14: at a line after the #endif of an accepted include guard whose
\* stripped view is not empty, a newline alone included, update raises an
\* error at that line; update returns from a file with a closed guard only
\* at its end and with an empty stripped view on every line after the last
\* #endif; and include_guard_endif_found is set only by an #endif that
\* brings preprocess_if_nest to 0 after the #define of the guard.
C14_NothingAfterGuard ==
    /\ [][(/\ AtLine
           /\ Top.include_guard_endif_found
           /\ uncommented_line(Top.path, Top.i + 1) # <<>>)
             => /\ status' = "raising"
                /\ error'.message \in AfterGuardMessages
                /\ error' = BundleErrorAt(Top.path, Top.i + 1,
                                          error'.message)]_vars
    /\ [][(/\ status = "running"
           /\ stack # <<>>
           /\ Top.at = "line"
           /\ Top.include_guard_endif_found
           /\ Len(stack') < Len(stack))
             => /\ Top.i = Len(lines(Top.path))
                /\ \E k \in DOMAIN lines(Top.path) :
                      /\ MatchEndif(uncommented_line(Top.path, k))
                      /\ \A l \in (k + 1)..Len(lines(Top.path)) :
                            uncommented_line(Top.path, l) = <<>>]_vars
    /\ [][\A j \in DOMAIN stack' :
             (/\ stack'[j].include_guard_endif_found
              /\ (j \in DOMAIN stack => ~stack[j].include_guard_endif_found))
                => /\ j = Len(stack)
                   /\ AtLine
                   /\ MatchEndif(uncommented_line(Top.path, Top.i + 1))
                   /\ Top.include_guard_define_found
                   /\ Top.preprocess_if_nest = 1
                   /\ stack'[j].preprocess_if_nest = 0]_vars

\* a line that holds only a newline in its stripped view, after a closed
\* include guard, has raised the error
C14_Witness ==
    /\ status = "raising"
    /\ error.message = OutOfGuardMessage
    /\ Top.include_guard_endif_found
    /\ uncommented_line(Top.path, Top.i + 1) = <<"\n">>

\* update is at a #pragma once that it accepts: no line with a non-empty
\* stripped view and no guard candidate before it, in a file that is not in
\* pragma_once
AtAcceptedPragmaOnce ==
    /\ AtLine
    /\ MatchPragmaOnce(lines(Top.path)[Top.i + 1])
    /\ ~Top.non_guard_line_found
    /\ Top.include_guard_macro = NoMacro
    /\ resolve(Top.path) \notin pragma_once

\* C15 as stated: an accepted #pragma once at line i appends a blank line
\* and then #line (i + 2) to the output.
C15_PlaceholderThenLine ==
    [][AtAcceptedPragmaOnce
          => result_lines' =
                result_lines \o
                   <<Emitted(<<"\n">>, Top.path, Top.i + 1),
                     LineDirective(Top.i + 2, relative_to_cwd(Top.path))>>]_vars

\* C15: an accepted #pragma once at line i sets pragma_once_found, adds the
\* canonical path to pragma_once and puts #line (i + 2) of the file in the
\* place of the #line directives that end the output; no other line is
\* appended or removed.
C15_DirectiveOnly ==
    [][AtAcceptedPragmaOnce
          => /\ status' = "running"
             /\ stack' = SetTop([Top EXCEPT !.pragma_once_found = TRUE,
                                            !.i = @ + 1])
             /\ pragma_once' = pragma_once \cup {resolve(Top.path)}
             /\ pragma_once_system' = pragma_once_system
             /\ \E n \in 0..Len(result_lines) :
                   /\ \A j \in (n + 1)..Len(result_lines) :
                         StartsWithLine(result_lines[j])
                   /\ n > 0 => ~StartsWithLine(result_lines[n])
                   /\ result_lines' =
                         Append(SubSeq(result_lines, 1, n),
                                LineDirective(Top.i + 2,
                                              relative_to_cwd(Top.path)))]_vars

\* the #pragma once of an included header has been accepted: #line 2 of the
\* header ends the output
C15_Witness ==
    /\ InLoop
    /\ Len(stack) = 2
    /\ Top.pragma_once_found
    /\ Top.i = 1
    /\ resolve(Top.path) \in pragma_once
    /\ result_lines[Len(result_lines)] =
          LineDirective(2, relative_to_cwd(Top.path))

\* C16: no two adjacent lines of the output are #line directives, and every
\* step leaves the output as it is, or appends one line that is no
\* directive, or takes every #line directive off the end of the output and
\* appends one directive: no other line is removed.
C16_Coalescing ==
    /\ [](\A j \in 1..(Len(result_lines) - 1) :
             ~(StartsWithLine(result_lines[j])
                  /\ StartsWithLine(result_lines[j + 1])))
    /\ [][\/ result_lines' = result_lines
          \/ /\ Len(result_lines') = Len(result_lines) + 1
             /\ SubSeq(result_lines', 1, Len(result_lines)) = result_lines
             /\ ~StartsWithLine(result_lines'[Len(result_lines')])
          \/ \E n \in 0..Len(result_lines) :
                /\ \A j \in (n + 1)..Len(result_lines) :
                      StartsWithLine(result_lines[j])
                /\ n > 0 => ~StartsWithLine(result_lines[n])
                /\ Len(result_lines') = n + 1
                /\ SubSeq(result_lines', 1, n) = SubSeq(result_lines, 1, n)
                /\ StartsWithLine(result_lines'[n + 1])]_vars

\* update has entered the header that the first line of the main file
\* includes: #line 1 of the header has taken the place of #line 1 of the
\* main file
C16_Witness ==
    /\ InLoop
    /\ Len(stack) = 2
    /\ Top.i = 0
    /\ stack[1].i = 0
    /\ result_lines = <<LineDirective(1, relative_to_cwd(Top.path))>>

NoHeaderMessage == "no such header"

\* the file that an #include "header" in the file from stands for: the one
\* in the directory of from, else the one in the first directory of iquotes
\* that holds header, else none
FirstExisting(header, from) ==
    LET here == resolve(<<from[1], header>>)
        K == {k \in DOMAIN iquotes :
                 resolve(<<iquotes[k], header>>) \in DOMAIN disk}
    IN  IF here \in DOMAIN disk THEN here
        ELSE IF K # {}
        THEN resolve(<<iquotes[CHOOSE k \in K : \A l \in K : k <= l], header>>)
        ELSE NoPath

\* C17: at an #include "header" that update expands, the file is the one in
\* the directory of the including file when it exists there, also when a
\* directory of iquotes holds the header; else the one in the first
\* directory of iquotes that holds it; update raises "no such header",
\* naming the header, exactly when no such file exists; and the activation
\* that the step enters reads the file so chosen.
C17_ResolutionOrder ==
    [][(AtLine /\ LineEffect(Top).ctl = "call")
          => LET header == LineEffect(Top).header
                 found == FirstExisting(header, Top.path)
             IN  /\ _resolve(header, Top.path) = found
                 /\ (status' = "raising" /\ error'.message = NoHeaderMessage)
                       <=> found = NoPath
                 /\ found = NoPath
                       => error' = [path |-> <<Rel, header>>, line |-> -1,
                                    message |-> NoHeaderMessage]
                 /\ Len(stack') > Len(stack)
                       => stack'[Len(stack')].path = found]_vars

\* "a" is found through the second directory of iquotes and, from there,
\* "b" in the directory of "a", although the working directory and the
\* first directory of iquotes hold "b" too
C17_Witness ==
    /\ InLoop
    /\ Len(stack) = 3
    /\ iquotes = <<"/j", "/i">>
    /\ stack[2].path = <<"/i", "a">>
    /\ Top.path = <<"/i", "b">>
    /\ <<Cwd, "b">> \in DOMAIN disk
    /\ <<"/j", "b">> \in DOMAIN disk

\* the positions of the output that hold a line of the file path for which
\* Match is true
Directives(r, path, Match(_)) ==
    {j \in DOMAIN r : /\ ~StartsWithLine(r[j])
                      /\ resolve(r[j].path) = path
                      /\ Match(r[j].text)}

\* C18 as stated: after a successful bundle the output holds, for every
\* file, as many #if / #ifdef / #ifndef lines as #endif lines: an #ifndef is
\* replaced by a blank line only together with its #endif.
C18_ConditionalsBalanced ==
    Bundled =>
        \A path \in DOMAIN disk :
            Cardinality(Directives(result_lines, path, MatchIf))
               = Cardinality(Directives(result_lines, path, MatchEndif))

\* C19 as stated: pragma_once_system holds names of standard_libraries only,
\* and an #include <name> with a name that is not in standard_libraries, at
\* a line that raises no error, is appended to the output as it is.
C19_NonStandardVerbatim ==
    /\ [](pragma_once_system \subseteq standard_libraries)
    /\ [][(/\ AtLine
           /\ LineEffect(Top).ctl = "continue"
           /\ ~MatchPragmaOnce(lines(Top.path)[Top.i + 1])
           /\ MatchInclude(uncommented_line(Top.path, Top.i + 1), "<", ">")
           /\ Included(uncommented_line(Top.path, Top.i + 1), "<", ">")
                 \notin standard_libraries)
             => result_lines' =
                   Append(result_lines,
                          Emitted(lines(Top.path)[Top.i + 1], Top.path,
                                  Top.i + 1))]_vars

\* C20 as stated: an activation of update returns without an error only
\* when no line of its file is left: at the end of the file, or at its last
\* line.
C20_NoTruncation ==
    [][(/\ status = "running"
        /\ stack # <<>>
        /\ Len(stack') < Len(stack))
          => Top.i + 1 >= Len(lines(Top.path))]_vars

====
